---- MODULE Spec2Model ----
(***************************************************************************)
(* Round-trip correlation of FareHarbor booking webhooks.                  *)
(*                                                                         *)
(* The model follows src/app/storage.py (the in-memory dict of pending     *)
(* bookings), src/app/helpers.py (flight resolution and direction          *)
(* assignment), src/app/transform.py and src/app/integrations.py (the      *)
(* webhook handler).  Handlers are coroutines of one asyncio event loop:   *)
(* a handler runs without interruption from one network await to the next, *)
(* so every action below is the code between two suspension points.        *)
(***************************************************************************)
EXTENDS Integers, Sequences, FiniteSets, TLC

\* ------------------------------------------------------------------------
\* Bounds of the model
\* ------------------------------------------------------------------------

\* the hour after which time stops advancing
MaxTime == 2

\* number of webhook deliveries handled in one behaviour, after the one
\* that may have left a pending booking before the behaviour starts
MaxReq == 2

\* length of the longest list of custom fields of a booking, and of the
\* longest list of candidates of a search response, when the resolver and the
\* matcher are called on their own
MaxLen == 2

\* ------------------------------------------------------------------------
\* Program constants
\* ------------------------------------------------------------------------

\* src/app/config.py: hours after which a pending booking is swept
ROUND_TRIP_CLEANUP_HOURS == 1

\* ------------------------------------------------------------------------
\* Values
\* ------------------------------------------------------------------------

\* order display ids used as correlation keys
Keys == {"BUJP", "QRST"}

\* the webhook deliveries, numbered in order of arrival; a booking's pk is
\* the number of the delivery that carried it
Reqs == 1..MaxReq

\* None, where the code has an Optional[int]
NoId == -1

\* a text of digits is the list of its digits ("0517" is <<0, 5, 1, 7>>);
\* <<>> is the empty text, or a text that holds no digits
NoText == <<>>

\* int(text) for a text of digits
RECURSIVE ToInt(_)
ToInt(text) ==
    IF Len(text) = 0 THEN 0
    ELSE 10 * ToInt(SubSeq(text, 1, Len(text) - 1)) + text[Len(text)]

\* a successful result of a call that may raise
Ok(v) == [raised |-> FALSE, value |-> v]

\* the result of a call that raised
Raised == [raised |-> TRUE, value |-> <<>>]

\* ------------------------------------------------------------------------
\* src/app/helpers.py
\* ------------------------------------------------------------------------

\* re.findall(r'\(([A-Z]{3})\)', item_name): item_name is modelled by the
\* list of parenthesized codes it holds
extract_airport_codes(item_name) ==
    IF Len(item_name) >= 2 THEN <<item_name[1], item_name[2]>>
    ELSE IF Len(item_name) = 1 THEN <<item_name[1], "">>
    ELSE <<"", "">>

\* a variant that rewrites a trailing Z only
NormalizeOffset_only_z(tz) ==
    IF tz = "Z" THEN "hh:mm"
    ELSE tz

\* the offset rewrite shared by build_flight_search_payload and
\* find_flight_identifier: a trailing (+|-)HHMM becomes (+|-)HH:MM, and a
\* trailing Z becomes +00:00
NormalizeOffset(tz) ==
    IF tz = "hhmm" THEN "hh:mm"
    ELSE IF tz = "Z" THEN "hh:mm"
    ELSE tz

\* datetime.fromisoformat(...).strftime("%Y-%m-%d") after the rewrite: the
\* calendar day as written, or a raise when the text is no ISO date-time
ParseDay(date) ==
    IF date.ymd > 0 /\ NormalizeOffset(date.tz) \in {"hh:mm", "none"}
    THEN Ok(date.ymd)
    ELSE Raised

\* a variant that asks for the origin code only
build_flight_search_payload_origin_only(booking_data) ==
    LET codes == extract_airport_codes(booking_data.item_name)
        day   == ParseDay(booking_data.start_at)
    IN  IF codes[1] = "" THEN Raised
        ELSE IF day.raised THEN Raised
        ELSE Ok([DepartDateStart |-> day.value, DepartDateEnd |-> day.value,
                 DepartOrigin |-> codes[1], DepartDestination |-> codes[2]])

build_flight_search_payload(booking_data) ==
    LET codes == extract_airport_codes(booking_data.item_name)
        day   == ParseDay(booking_data.start_at)
    IN  IF codes[1] = "" \/ codes[2] = "" THEN Raised
        ELSE IF day.raised THEN Raised
        ELSE Ok([DepartDateStart |-> day.value, DepartDateEnd |-> day.value,
                 DepartOrigin |-> codes[1], DepartDestination |-> codes[2]])

\* the flight numbers the loop of extract_flight_numbers collects from the
\* fields cfv[i..]; a booking carries each of its custom fields once, so the
\* dict of the fields by name keeps them all, in order
RECURSIVE FieldFlightNumbers(_, _)
FieldFlightNumbers(cfv, i) ==
    IF i > Len(cfv) THEN <<>>
    ELSE LET f == cfv[i]
             rest == FieldFlightNumbers(cfv, i + 1)
         IN  IF ~f.flight_number_label THEN rest
             ELSE IF f.name_number # NoText THEN <<ToInt(f.name_number)>> \o rest
             ELSE IF f.value # NoText THEN <<ToInt(f.value)>> \o rest
             ELSE rest

extract_flight_numbers(booking_data) ==
    LET cfv == booking_data.custom_field_values
    IN  IF \E i \in 1..Len(cfv) : ~cfv[i].has_keys THEN Raised
        ELSE LET flights == FieldFlightNumbers(cfv, 1)
             IN  IF flights = <<>> /\ booking_data.item_pk # NoId
                 THEN Ok(<<booking_data.item_pk>>)
                 ELSE Ok(flights)

\* the first flight number extract_flight_date_and_number finds in the
\* custom fields cfv[i..], NoText when there is none
RECURSIVE FieldFlightNumberString(_, _)
FieldFlightNumberString(cfv, i) ==
    IF i > Len(cfv) THEN NoText
    ELSE LET f == cfv[i]
         IN  IF f.flight_number_label /\ f.name_number # NoText THEN f.name_number
             ELSE IF f.flight_number_label /\ f.display_value # NoText THEN f.display_value
             ELSE FieldFlightNumberString(cfv, i + 1)

extract_flight_date_and_number(booking_data) ==
    [flight_date   |-> booking_data.start_at,
     flight_number |-> IF booking_data.headline # NoText THEN booking_data.headline
                       ELSE FieldFlightNumberString(booking_data.custom_field_values, 1)]

\* the value a candidate holds under FlightIdentifier, Identifier or Id: a
\* number n (kind "int"), a text (kind "str": the digits of n, or with
\* n = NoId a text that is no number), or nothing (kind "none")
IsTruthy(flight_identifier) ==
    \/ flight_identifier.kind = "int" /\ flight_identifier.n # 0
    \/ flight_identifier.kind = "str"

\* int(flight_identifier), which raises ValueError on a text that is no number
IntOfIdentifier(flight_identifier) ==
    IF flight_identifier.kind = "str" /\ flight_identifier.n = NoId THEN Raised
    ELSE Ok(flight_identifier.n)

\* a variant that compares the flight numbers as numbers
ScanFlights_numeric(flight_list, i, date_only, flight_number) ==
    LET RECURSIVE Scan(_)
        Scan(j) ==
            IF j > Len(flight_list) THEN Ok(NoId)
            ELSE LET flight == flight_list[j]
                     day    == ParseDay(flight.FlightDate)
                 IN  IF day.raised THEN Scan(j + 1)
                     ELSE IF day.value = date_only
                             /\ ToInt(flight.FlightNumber) = ToInt(flight_number)
                             /\ IsTruthy(flight.FlightIdentifier)
                     THEN IntOfIdentifier(flight.FlightIdentifier)
                     ELSE Scan(j + 1)
    IN  Scan(i)

\* the loop of find_flight_identifier over flight_list[i..]; FlightNumber is
\* the text str() gives for the value the candidate holds
RECURSIVE ScanFlights(_, _, _, _)
ScanFlights(flight_list, i, date_only, flight_number) ==
    IF i > Len(flight_list) THEN Ok(NoId)
    ELSE LET flight == flight_list[i]
             day    == ParseDay(flight.FlightDate)
         IN  IF day.raised
             THEN ScanFlights(flight_list, i + 1, date_only, flight_number)
             ELSE IF day.value = date_only /\ flight.FlightNumber = flight_number
                     /\ IsTruthy(flight.FlightIdentifier)
             THEN IntOfIdentifier(flight.FlightIdentifier)
             ELSE ScanFlights(flight_list, i + 1, date_only, flight_number)

find_flight_identifier(flight_list, flight_date, flight_number) ==
    IF flight_date.ymd = 0 \/ flight_number = NoText THEN Ok(NoId)
    ELSE LET day == ParseDay(flight_date)
         IN  IF day.raised THEN Ok(NoId)
             ELSE ScanFlights(flight_list, 1, day.value, flight_number)

\* a variant that tries the keys of an object in the order data, FlightList,
\* flights
ResolveFromSearch_data_first(booking_data, search_result) ==
    LET response == search_result.response
        flight_list ==
            IF response.kind = "dict"
            THEN IF response.data # <<>> THEN response.data
                 ELSE IF response.FlightList # <<>> THEN response.FlightList
                 ELSE response.flights
            ELSE response.list
        target == extract_flight_date_and_number(booking_data)
        flight_identifier ==
            find_flight_identifier(flight_list, target.flight_date, target.flight_number)
    IN  IF ~search_result.success THEN extract_flight_numbers(booking_data)
        ELSE IF response.kind \notin {"dict", "list"} THEN extract_flight_numbers(booking_data)
        ELSE IF flight_list = <<>> THEN extract_flight_numbers(booking_data)
        ELSE IF target.flight_date.ymd = 0 \/ target.flight_number = NoText
        THEN extract_flight_numbers(booking_data)
        ELSE IF flight_identifier.raised THEN extract_flight_numbers(booking_data)
        ELSE IF flight_identifier.value # NoId /\ flight_identifier.value # 0
        THEN Ok(<<flight_identifier.value>>)
        ELSE extract_flight_numbers(booking_data)

\* get_flight_identifiers_from_api from the return of search_flights on:
\* steps 2 to 5 and the except clause, whose fallback may raise in turn
ResolveFromSearch(booking_data, search_result) ==
    LET response == search_result.response
        flight_list ==
            IF response.kind = "dict"
            THEN IF response.flights # <<>> THEN response.flights
                 ELSE IF response.FlightList # <<>> THEN response.FlightList
                 ELSE response.data
            ELSE response.list
        target == extract_flight_date_and_number(booking_data)
        flight_identifier ==
            find_flight_identifier(flight_list, target.flight_date, target.flight_number)
    IN  IF ~search_result.success THEN extract_flight_numbers(booking_data)
        ELSE IF response.kind \notin {"dict", "list"} THEN extract_flight_numbers(booking_data)
        ELSE IF flight_list = <<>> THEN extract_flight_numbers(booking_data)
        ELSE IF target.flight_date.ymd = 0 \/ target.flight_number = NoText
        THEN extract_flight_numbers(booking_data)
        ELSE IF flight_identifier.raised THEN extract_flight_numbers(booking_data)
        ELSE IF flight_identifier.value # NoId /\ flight_identifier.value # 0
        THEN Ok(<<flight_identifier.value>>)
        ELSE extract_flight_numbers(booking_data)

\* whether get_flight_identifiers_from_api reaches its await: the search is
\* called only when the payload could be built
CallsSearch(booking_data) == ~build_flight_search_payload(booking_data).raised

get_flight_identifiers_from_api(booking_data, search_result) ==
    IF build_flight_search_payload(booking_data).raised
    THEN extract_flight_numbers(booking_data)
    ELSE ResolveFromSearch(booking_data, search_result)

\* a variant that reads the direction off the route text, as get_flight_direction
\* does: a booking leaving FXE is the depart leg
determine_flight_directions_by_route(existing_flights, current_flights, existing_booking, current_booking) ==
    IF Len(existing_booking.item_name) > 0 /\ existing_booking.item_name[1] = "FXE"
    THEN [depart_flights |-> existing_flights, return_flights |-> current_flights]
    ELSE [depart_flights |-> current_flights, return_flights |-> existing_flights]

determine_flight_directions(existing_flights, current_flights, existing_booking, current_booking) ==
    [depart_flights |-> current_flights, return_flights |-> existing_flights]

\* ------------------------------------------------------------------------
\* src/app/transform.py
\* ------------------------------------------------------------------------

\* the passenger and contact fields are carried as the customers value of
\* the booking they are read from; the dict comprehension over the custom
\* fields raises KeyError on a field without name or value
transform_booking_data(booking_data, depart_flights, return_flights) ==
    LET cfv == booking_data.custom_field_values
    IN  IF \E i \in 1..Len(cfv) : ~cfv[i].has_keys THEN Raised
        ELSE Ok([DepartFlights |-> depart_flights,
                 ReturnFlights |-> return_flights,
                 Passengers    |-> booking_data.customers])

\* ------------------------------------------------------------------------
\* src/app/storage.py: the dict round_trip_bookings is a function whose
\* domain is the set of keys it holds
\* ------------------------------------------------------------------------

\* a variant that also removes a booking exactly ROUND_TRIP_CLEANUP_HOURS old
cleanup_old_bookings_at_ttl(bookings, current_time) ==
    [k \in {o \in DOMAIN bookings :
                ~(current_time - bookings[o].first_received_at >= ROUND_TRIP_CLEANUP_HOURS)}
        |-> bookings[k]]

\* a variant that stops after the first key it removes
cleanup_old_bookings_first_only(bookings, current_time) ==
    LET old == {o \in DOMAIN bookings :
                   current_time - bookings[o].first_received_at > ROUND_TRIP_CLEANUP_HOURS}
    IN  IF old = {} THEN bookings
        ELSE [k \in DOMAIN bookings \ {CHOOSE o \in old : TRUE} |-> bookings[k]]

cleanup_old_bookings(bookings, current_time) ==
    [k \in {o \in DOMAIN bookings :
                ~(current_time - bookings[o].first_received_at > ROUND_TRIP_CLEANUP_HOURS)}
        |-> bookings[k]]

\* a variant that keeps the stamp of the entry it overwrites
store_round_trip_booking_keep_stamp(bookings, order_id, booking_data, flights, current_time) ==
    [k \in DOMAIN bookings \cup {order_id} |->
        IF k = order_id
        THEN [booking_data |-> booking_data, flights |-> flights,
              first_received_at |-> IF order_id \in DOMAIN bookings
                                    THEN bookings[order_id].first_received_at
                                    ELSE current_time]
        ELSE bookings[k]]

\* a variant that rebinds the dict to one that holds the new entry only
store_round_trip_booking_alone(bookings, order_id, booking_data, flights, current_time) ==
    [k \in {order_id} |->
        [booking_data |-> booking_data, flights |-> flights,
         first_received_at |-> current_time]]

store_round_trip_booking(bookings, order_id, booking_data, flights, current_time) ==
    [k \in DOMAIN bookings \cup {order_id} |->
        IF k = order_id
        THEN [booking_data |-> booking_data, flights |-> flights,
              first_received_at |-> current_time]
        ELSE bookings[k]]

\* Optional[...]: <<>> is None, <<e>> the entry e
get_round_trip_booking(bookings, order_id) ==
    IF order_id \in DOMAIN bookings THEN <<bookings[order_id]>> ELSE <<>>

\* a variant that empties the dict when it deletes a key
remove_round_trip_booking_clear(bookings, order_id) ==
    IF order_id \in DOMAIN bookings
    THEN [k \in {} |-> bookings[k]]
    ELSE bookings

remove_round_trip_booking(bookings, order_id) ==
    IF order_id \in DOMAIN bookings
    THEN [k \in DOMAIN bookings \ {order_id} |-> bookings[k]]
    ELSE bookings

\* a variant that reports an entry for every order
has_round_trip_booking_any(bookings, order_id) == TRUE

has_round_trip_booking(bookings, order_id) == order_id \in DOMAIN bookings

\* ------------------------------------------------------------------------
\* Inputs: the bookings a webhook may carry and the answers of the two
\* remote services
\* ------------------------------------------------------------------------

\* a date-time text: the day, the hour and the offset it is written with
\* (ymd = 0 for the empty text) and the form of its offset: "hhmm" for
\* (+|-)HHMM, "hh:mm" for (+|-)HH:MM, "Z", "none" when it has no offset,
\* "bad" when it is no ISO date-time.  "2025-10-28T10:00:00-0400":
StartAt == [ymd |-> 28, hour |-> 10, off |-> -4, tz |-> "hhmm"]

\* the empty date-time text
NoDate == [ymd |-> 0, hour |-> 0, off |-> 0, tz |-> "none"]

\* a booking-level custom field named "Flight Number <n>", n a text of digits
FlightNumberField(n) ==
    [has_keys |-> TRUE, flight_number_label |-> TRUE, name_number |-> n,
     value |-> NoText, display_value |-> NoText]

\* a custom field without the keys name and value
KeylessField ==
    [has_keys |-> FALSE, flight_number_label |-> FALSE, name_number |-> NoText,
     value |-> NoText, display_value |-> NoText]

\* what a webhook says besides its order and pk: the two legs of the test
\* data (COX to FXE as flight 517, FXE to COX as flight 516), a booking whose
\* item name holds a single airport code, and the same two kinds of booking
\* with a keyless custom field
Legs ==
    { [item_name |-> <<"COX", "FXE">>, item_pk |-> 81645, headline |-> <<5, 1, 7>>,
       custom_field_values |-> <<FlightNumberField(<<5, 1, 7>>)>>],
      [item_name |-> <<"FXE", "COX">>, item_pk |-> 81646, headline |-> <<5, 1, 6>>,
       custom_field_values |-> <<FlightNumberField(<<5, 1, 6>>)>>],
      [item_name |-> <<"FXE">>, item_pk |-> 81646, headline |-> NoText,
       custom_field_values |-> <<>>],
      [item_name |-> <<"COX", "FXE">>, item_pk |-> 81645, headline |-> <<5, 1, 7>>,
       custom_field_values |-> <<KeylessField>>],
      [item_name |-> <<"FXE">>, item_pk |-> 81646, headline |-> NoText,
       custom_field_values |-> <<KeylessField>>] }

\* the booking of delivery h for order o
Booking(o, h, leg) ==
    [order |-> o, pk |-> h, customers |-> h, start_at |-> StartAt,
     item_name |-> leg.item_name, item_pk |-> leg.item_pk,
     headline |-> leg.headline, custom_field_values |-> leg.custom_field_values]

\* no booking (an unset local)
NoBooking ==
    [order |-> "", pk |-> 0, customers |-> 0, start_at |-> NoDate,
     item_name |-> <<>>, item_pk |-> NoId, headline |-> NoText,
     custom_field_values |-> <<>>]

\* what search_flights may return: a failure, or the flights of the day as a
\* bare list.  A response is a list (kind "list", its items in list), an
\* object (kind "dict", with the values of its keys flights, FlightList and
\* data, <<>> for a key it lacks) or neither
SearchFailure ==
    [success |-> FALSE,
     response |-> [kind |-> "none", list |-> <<>>, flights |-> <<>>,
                   FlightList |-> <<>>, data |-> <<>>]]

SearchHit ==
    [success |-> TRUE,
     response |-> [kind |-> "list", flights |-> <<>>, FlightList |-> <<>>, data |-> <<>>,
                   list |-> << [FlightDate |-> [ymd |-> 28, hour |-> 10, off |-> -4,
                                               tz |-> "hh:mm"],
                                FlightNumber |-> <<5, 1, 7>>,
                                FlightIdentifier |-> [kind |-> "int", n |-> 1001]],
                               [FlightDate |-> [ymd |-> 28, hour |-> 8, off |-> -4,
                                               tz |-> "hh:mm"],
                                FlightNumber |-> <<5, 1, 6>>,
                                FlightIdentifier |-> [kind |-> "int", n |-> 2001]] >>]]

SearchResults == {SearchFailure, SearchHit}

\* what send_to_makersuite_api may return: the response of the service, or
\* the error of a request that timed out
ApiResults ==
    {[success |-> TRUE, error |-> ""], [success |-> FALSE, error |-> "Request timeout"]}

\* ------------------------------------------------------------------------
\* State
\* ------------------------------------------------------------------------

VARIABLES
    round_trip_bookings,  \* storage.py: the pending bookings, by order id
    now,                  \* datetime.now(), in hours
    task,                 \* per delivery: where its handler is, and its locals
    sent,                 \* the calls of send_to_makersuite_api made so far: which
                          \* delivery combined with the stored booking of which
    last_op,              \* the storage call made last, when storage is driven directly
    call                  \* a call of the resolver or of the matcher on its own:
                          \* its arguments, where it is, and what it returned

vars == <<round_trip_bookings, now, task, sent, last_op, call>>

\* no payload (an unset local)
NoData == [DepartFlights |-> <<>>, ReturnFlights |-> <<>>, Passengers |-> 0]

\* a handler that has not started, or whose locals are gone
Idle ==
    [pc |-> "idle", booking_data |-> NoBooking, existing_booking |-> NoBooking,
     existing_flights |-> <<>>, current_flights |-> <<>>,
     transformed_data |-> NoData, order_id |-> "", result |-> "none", error |-> ""]

\* no storage call made yet
NoOp == [name |-> "none", key |-> "", removed |-> {}, at |-> 0, again |-> FALSE,
         prior_removed |-> {}, booking_data |-> NoBooking, flights |-> <<>>]

\* no call of the resolver or of the matcher on its own
NoCall ==
    [op |-> "none", pc |-> "none", booking_data |-> NoBooking,
     search_result |-> SearchFailure, flight_list |-> <<>>, flight_date |-> NoDate,
     flight_number |-> NoText, searched |-> FALSE, rewritten |-> FALSE,
     result |-> Ok(<<>>)]

\* the empty dict
EmptyStore == [k \in {} |-> NoBooking]

\* the store after an earlier delivery, numbered 0, put the return leg of the
\* test data under "BUJP" at hour 0
PendingStore ==
    store_round_trip_booking(EmptyStore, "BUJP",
                             Booking("BUJP", 0, CHOOSE leg \in Legs : leg.headline = <<5, 1, 7>>
                                                   /\ leg.custom_field_values[1].has_keys),
                             <<1001>>, 0)

\* the service has been running for an hour: the store is as constructed,
\* or holds the pending booking of an earlier delivery
Init ==
    /\ round_trip_bookings \in {EmptyStore, PendingStore}
    /\ now = 1
    /\ task = [h \in Reqs |-> Idle]
    /\ sent = {}
    /\ last_op = NoOp
    /\ call = NoCall

\* ------------------------------------------------------------------------
\* src/app/integrations.py: _process_round_trip_booking, cut at its awaits
\* ------------------------------------------------------------------------

\* the handler of delivery h returns an outcome: a kind of result and the
\* value of its error key ("" when it has none); its locals are gone
ReturnOutcome(h, order_id, outcome) ==
    task' = [task EXCEPT ![h] = [Idle EXCEPT !.pc = "done", !.order_id = order_id,
                                             !.result = outcome.result,
                                             !.error = outcome.error]]

\* the handler of delivery h returns without an emit result, or raises into
\* the except clause of receive_booking_webhook (result "processing_failed",
\* whose error is the text of the exception)
Return(h, order_id, result) ==
    ReturnOutcome(h, order_id,
                  [result |-> result,
                   error |-> IF result = "storage_error" THEN "Booking storage error"
                             ELSE IF result = "processing_failed" THEN "str(e)"
                             ELSE ""])

\* the handler of delivery h suspends in an await
Suspend(h, pc, booking_data, existing_booking, existing_flights, current_flights, transformed_data) ==
    task' = [task EXCEPT ![h] =
                [pc |-> pc, booking_data |-> booking_data,
                 existing_booking |-> existing_booking,
                 existing_flights |-> existing_flights,
                 current_flights |-> current_flights,
                 transformed_data |-> transformed_data,
                 order_id |-> booking_data.order, result |-> "none", error |-> ""]]

\* a variant that removes the pending booking before the emit call
StoreAtEmit_removed(bookings, order_id) ==
    [k \in DOMAIN bookings \ {order_id} |-> bookings[k]]

\* a variant that stamps the pending booking again when its payload is
\* handed to the emitter
StoreAtEmit_refreshed(bookings, order_id) ==
    [k \in DOMAIN bookings |->
        IF k = order_id THEN [bookings[k] EXCEPT !.first_received_at = now]
        ELSE bookings[k]]

\* lines 131-134: what the store is while send_to_makersuite_api is awaited
StoreAtEmit(bookings, order_id) == bookings

\* a variant that keeps the pending booking when the emit call failed
StoreAfterEmit_kept_on_failure(bookings, order_id, api_result) ==
    IF api_result.success
    THEN [k \in DOMAIN bookings \ {order_id} |-> bookings[k]]
    ELSE bookings

\* lines 134-154: the store once the emit call has returned api_result
StoreAfterEmit(bookings, order_id, api_result) ==
    remove_round_trip_booking(bookings, order_id)

\* a variant that reports an emit failure without its error
EmitOutcome_no_error(api_result) ==
    [result |-> IF api_result.success THEN "combined_sent" ELSE "combined_failed",
     error |-> ""]

\* lines 136-154: what the handler returns for the result of the emit call
EmitOutcome(api_result) ==
    [result |-> IF api_result.success THEN "combined_sent" ELSE "combined_failed",
     error |-> IF api_result.success THEN "" ELSE api_result.error]

\* a variant that takes the booking that just arrived as the base of the
\* payload
Combine_current_base(h, bookings, booking_data, existing_booking, existing_flights, current_flights) ==
    LET dirs == determine_flight_directions(existing_flights, current_flights,
                                            existing_booking, booking_data)
        combined_booking_data == booking_data
        transformed_data == transform_booking_data(combined_booking_data,
                                                   dirs.depart_flights, dirs.return_flights)
    IN  IF transformed_data.raised
        THEN /\ Return(h, booking_data.order, "processing_failed")
             /\ round_trip_bookings' = bookings
             /\ UNCHANGED sent
        ELSE /\ Suspend(h, "emit", booking_data, existing_booking,
                        existing_flights, current_flights, transformed_data.value)
             /\ round_trip_bookings' = StoreAtEmit(bookings, booking_data.order)
             /\ sent' = sent \cup {[req |-> h, existing |-> existing_booking.pk]}

\* a variant that removes the pending booking when the transform raises
Combine_remove_on_raise(h, bookings, booking_data, existing_booking, existing_flights, current_flights) ==
    LET dirs == determine_flight_directions(existing_flights, current_flights,
                                            existing_booking, booking_data)
        combined_booking_data == existing_booking
        transformed_data == transform_booking_data(combined_booking_data,
                                                   dirs.depart_flights, dirs.return_flights)
    IN  IF transformed_data.raised
        THEN /\ Return(h, booking_data.order, "processing_failed")
             /\ round_trip_bookings' = remove_round_trip_booking(bookings, booking_data.order)
             /\ UNCHANGED sent
        ELSE /\ Suspend(h, "emit", booking_data, existing_booking,
                        existing_flights, current_flights, transformed_data.value)
             /\ round_trip_bookings' = StoreAtEmit(bookings, booking_data.order)
             /\ sent' = sent \cup {[req |-> h, existing |-> existing_booking.pk]}

\* lines 112-131: both legs are resolved; assign directions, transform the
\* stored booking and hand the payload to send_to_makersuite_api
Combine(h, bookings, booking_data, existing_booking, existing_flights, current_flights) ==
    LET dirs == determine_flight_directions(existing_flights, current_flights,
                                            existing_booking, booking_data)
        combined_booking_data == existing_booking
        transformed_data == transform_booking_data(combined_booking_data,
                                                   dirs.depart_flights, dirs.return_flights)
    IN  IF transformed_data.raised
        THEN /\ Return(h, booking_data.order, "processing_failed")
             /\ round_trip_bookings' = bookings
             /\ UNCHANGED sent
        ELSE /\ Suspend(h, "emit", booking_data, existing_booking,
                        existing_flights, current_flights, transformed_data.value)
             /\ round_trip_bookings' = StoreAtEmit(bookings, booking_data.order)
             /\ sent' = sent \cup {[req |-> h, existing |-> existing_booking.pk]}

\* line 110 on, once existing_flights is known: resolve the new booking,
\* suspending when its search is called
ResolveCurrent(h, bookings, booking_data, existing_booking, existing_flights) ==
    IF existing_flights.raised
    THEN /\ Return(h, booking_data.order, "processing_failed")
         /\ round_trip_bookings' = bookings
         /\ UNCHANGED sent
    ELSE IF CallsSearch(booking_data)
    THEN /\ Suspend(h, "search_current", booking_data, existing_booking,
                    existing_flights.value, <<>>, NoData)
         /\ round_trip_bookings' = bookings
         /\ UNCHANGED sent
    ELSE LET current_flights == get_flight_identifiers_from_api(booking_data, SearchFailure)
         IN  IF current_flights.raised
             THEN /\ Return(h, booking_data.order, "processing_failed")
                  /\ round_trip_bookings' = bookings
                  /\ UNCHANGED sent
             ELSE Combine(h, bookings, booking_data, existing_booking,
                          existing_flights.value, current_flights.value)

\* a variant that also hands the first booking to the emitter, as the
\* single-trip handler does
StoreFirst_emits(h, bookings, booking_data, flights) ==
    IF flights.raised
    THEN /\ Return(h, booking_data.order, "processing_failed")
         /\ round_trip_bookings' = bookings
         /\ UNCHANGED sent
    ELSE /\ Return(h, booking_data.order, "stored")
         /\ round_trip_bookings' =
                store_round_trip_booking(bookings, booking_data.order, booking_data,
                                         flights.value, now)
         /\ sent' = sent \cup {[req |-> h, existing |-> booking_data.pk]}

\* lines 159-165, once flights is known: store the first booking
StoreFirst(h, bookings, booking_data, flights) ==
    IF flights.raised
    THEN /\ Return(h, booking_data.order, "processing_failed")
         /\ round_trip_bookings' = bookings
         /\ UNCHANGED sent
    ELSE /\ Return(h, booking_data.order, "stored")
         /\ round_trip_bookings' =
                store_round_trip_booking(bookings, booking_data.order, booking_data,
                                         flights.value, now)
         /\ UNCHANGED sent

\* a variant that takes the flights saved with the entry as the identifiers
\* of the stored booking
Process_stored_flights(h, booking_data) ==
    LET order_id == booking_data.order
        bookings == cleanup_old_bookings(round_trip_bookings, now)
    IN  IF has_round_trip_booking(bookings, order_id)
        THEN LET existing_booking_info == get_round_trip_booking(bookings, order_id)
             IN  IF existing_booking_info = <<>>
                 THEN /\ Return(h, order_id, "storage_error")
                      /\ round_trip_bookings' = bookings
                      /\ UNCHANGED sent
                 ELSE ResolveCurrent(h, bookings, booking_data,
                                     existing_booking_info[1].booking_data,
                                     Ok(existing_booking_info[1].flights))
        ELSE IF CallsSearch(booking_data)
        THEN /\ Suspend(h, "search_first", booking_data, NoBooking, <<>>, <<>>, NoData)
             /\ round_trip_bookings' = bookings
             /\ UNCHANGED sent
        ELSE StoreFirst(h, bookings, booking_data,
                        get_flight_identifiers_from_api(booking_data, SearchFailure))

\* lines 86-110 and 155-159: sweep, look the order up and take a branch, up
\* to the first await
Process(h, booking_data) ==
    LET order_id == booking_data.order
        bookings == cleanup_old_bookings(round_trip_bookings, now)
    IN  IF has_round_trip_booking(bookings, order_id)
        THEN LET existing_booking_info == get_round_trip_booking(bookings, order_id)
             IN  IF existing_booking_info = <<>>
                 THEN /\ Return(h, order_id, "storage_error")
                      /\ round_trip_bookings' = bookings
                      /\ UNCHANGED sent
                 ELSE LET existing_booking == existing_booking_info[1].booking_data
                      IN  IF CallsSearch(existing_booking)
                          THEN /\ Suspend(h, "search_existing", booking_data,
                                          existing_booking, <<>>, <<>>, NoData)
                               /\ round_trip_bookings' = bookings
                               /\ UNCHANGED sent
                          ELSE ResolveCurrent(h, bookings, booking_data, existing_booking,
                                   get_flight_identifiers_from_api(existing_booking,
                                                                   SearchFailure))
        ELSE IF CallsSearch(booking_data)
        THEN /\ Suspend(h, "search_first", booking_data, NoBooking, <<>>, <<>>, NoData)
             /\ round_trip_bookings' = bookings
             /\ UNCHANGED sent
        ELSE StoreFirst(h, bookings, booking_data,
                        get_flight_identifiers_from_api(booking_data, SearchFailure))

\* a round-trip webhook for order o arrives and its handler runs to its
\* first await
ReceiveOrder(h, o) ==
    /\ task[h].pc = "idle"
    /\ \A g \in Reqs : g < h => task[g].pc # "idle"
    /\ \E leg \in Legs : Process(h, Booking(o, h, leg))
    /\ UNCHANGED <<now, last_op, call>>

Receive(h) == \E o \in Keys : ReceiveOrder(h, o)

\* line 159: search_flights returns to a handler that found no entry
FirstSearched(h) ==
    /\ task[h].pc = "search_first"
    /\ \E search_result \in SearchResults :
          StoreFirst(h, round_trip_bookings, task[h].booking_data,
                     get_flight_identifiers_from_api(task[h].booking_data, search_result))
    /\ UNCHANGED <<now, last_op, call>>

\* line 109: search_flights returns for the stored booking
ExistingSearched(h) ==
    /\ task[h].pc = "search_existing"
    /\ \E search_result \in SearchResults :
          ResolveCurrent(h, round_trip_bookings, task[h].booking_data,
                         task[h].existing_booking,
                         get_flight_identifiers_from_api(task[h].existing_booking,
                                                         search_result))
    /\ UNCHANGED <<now, last_op, call>>

\* line 110: search_flights returns for the new booking
CurrentSearched(h) ==
    /\ task[h].pc = "search_current"
    /\ \E search_result \in SearchResults :
          LET current_flights ==
                  get_flight_identifiers_from_api(task[h].booking_data, search_result)
          IN  IF current_flights.raised
              THEN /\ Return(h, task[h].order_id, "processing_failed")
                   /\ UNCHANGED <<round_trip_bookings, sent>>
              ELSE Combine(h, round_trip_bookings, task[h].booking_data,
                           task[h].existing_booking, task[h].existing_flights,
                           current_flights.value)
    /\ UNCHANGED <<now, last_op, call>>

\* lines 131-154: send_to_makersuite_api returns
Emitted(h) ==
    /\ task[h].pc = "emit"
    /\ \E api_result \in ApiResults :
          /\ round_trip_bookings' =
                 StoreAfterEmit(round_trip_bookings, task[h].order_id, api_result)
          /\ ReturnOutcome(h, task[h].order_id, EmitOutcome(api_result))
    /\ UNCHANGED <<now, sent, last_op, call>>

\* an hour passes
Tick ==
    /\ now < MaxTime
    /\ now' = now + 1
    /\ UNCHANGED <<round_trip_bookings, task, sent, last_op, call>>

Next ==
    \/ \E h \in Reqs : Receive(h)
    \/ \E h \in Reqs : FirstSearched(h)
    \/ \E h \in Reqs : ExistingSearched(h)
    \/ \E h \in Reqs : CurrentSearched(h)
    \/ \E h \in Reqs : Emitted(h)
    \/ Tick

Spec == Init /\ [][Next]_vars

\* ------------------------------------------------------------------------
\* The same handlers when the webhooks of one order never overlap and no
\* pending booking outlives ROUND_TRIP_CLEANUP_HOURS
\* ------------------------------------------------------------------------

\* no handler of order o is between its arrival and its return
NoneInFlight(o) ==
    \A g \in Reqs : task[g].pc \in {"idle", "done"} \/ task[g].order_id # o

ReceiveAlone(h) == \E o \in Keys : NoneInFlight(o) /\ ReceiveOrder(h, o)

\* an hour passes, while every pending booking stays within the TTL
TickWithinTTL ==
    /\ \A k \in DOMAIN round_trip_bookings :
          (now + 1) - round_trip_bookings[k].first_received_at <= ROUND_TRIP_CLEANUP_HOURS
    /\ Tick

NextSeq ==
    \/ \E h \in Reqs : ReceiveAlone(h)
    \/ \E h \in Reqs : FirstSearched(h)
    \/ \E h \in Reqs : ExistingSearched(h)
    \/ \E h \in Reqs : CurrentSearched(h)
    \/ \E h \in Reqs : Emitted(h)
    \/ TickWithinTTL

SpecSeq == Init /\ [][NextSeq]_vars

\* ------------------------------------------------------------------------
\* src/app/storage.py driven call by call, as test_storage_operations does
\* ------------------------------------------------------------------------

\* the storage call made last: its name, its key, the keys it deleted from
\* the dict, the hour it was made at, whether it repeats a sweep made at the
\* same hour with no call in between, the keys that sweep removed, and the
\* booking and the flights a put was given
Called(name, key, removed) ==
    LET again == name = "sweep" /\ last_op.name = "sweep" /\ last_op.at = now
    IN  [name |-> name, key |-> key, removed |-> removed, at |-> now, again |-> again,
         prior_removed |-> IF again THEN last_op.removed \cup last_op.prior_removed
                           ELSE {},
         booking_data |-> NoBooking, flights |-> <<>>]

\* the lists of identifiers a caller may pass to put
FlightLists == {<<>>, <<1001>>}

\* the bookings of the test data
TestLegs == {leg \in Legs : Len(leg.item_name) = 2 /\ leg.custom_field_values[1].has_keys}

Put(key) ==
    /\ \E h \in Reqs, leg \in TestLegs, flights \in FlightLists :
          /\ round_trip_bookings' =
                 store_round_trip_booking(round_trip_bookings, key, Booking(key, h, leg),
                                          flights, now)
          /\ last_op' = [Called("put", key, {}) EXCEPT
                             !.booking_data = Booking(key, h, leg), !.flights = flights]
    /\ UNCHANGED <<now, task, sent, call>>

Remove(key) ==
    /\ round_trip_bookings' = remove_round_trip_booking(round_trip_bookings, key)
    /\ last_op' = Called("remove", key, {key} \cap DOMAIN round_trip_bookings)
    /\ UNCHANGED <<now, task, sent, call>>

Sweep ==
    /\ round_trip_bookings' = cleanup_old_bookings(round_trip_bookings, now)
    /\ last_op' = Called("sweep", "",
                         DOMAIN round_trip_bookings
                             \ DOMAIN cleanup_old_bookings(round_trip_bookings, now))
    /\ UNCHANGED <<now, task, sent, call>>

NextStore ==
    \/ \E key \in Keys : Put(key)
    \/ \E key \in Keys : Remove(key)
    \/ Sweep
    \/ Tick

\* the calls start at hour 0, on the store as constructed or just after the
\* put of an earlier delivery
InitStore ==
    /\ round_trip_bookings \in {EmptyStore, PendingStore}
    /\ now = 0
    /\ task = [h \in Reqs |-> Idle]
    /\ sent = {}
    /\ last_op = NoOp
    /\ call = NoCall

SpecStore == InitStore /\ [][NextStore]_vars

\* ------------------------------------------------------------------------
\* src/app/integrations.py: _process_single_trip_booking, cut at its awaits,
\* with no round-trip webhook arriving
\* ------------------------------------------------------------------------

\* the booking of delivery h when it belongs to no order: is_round_trip is
\* false for it
SingleBooking(h, leg) == Booking("", h, leg)

\* a variant that sweeps the store when a single-trip webhook arrives
StoreAtSingle_swept(bookings, current_time) == cleanup_old_bookings(bookings, current_time)

\* lines 168-203: what _process_single_trip_booking does to the store
StoreAtSingle(bookings, current_time) == bookings

\* lines 188-203: what the handler returns for the result of the emit call
SingleEmitOutcome(api_result) ==
    [result |-> IF api_result.success THEN "single_sent" ELSE "single_failed",
     error |-> IF api_result.success THEN "" ELSE api_result.error]

\* lines 175-186, once depart_flights is known: transform the booking and
\* hand the payload to send_to_makersuite_api
SendSingle(h, booking_data, depart_flights) ==
    IF depart_flights.raised
    THEN /\ Return(h, booking_data.order, "processing_failed")
         /\ UNCHANGED sent
    ELSE LET transformed_data ==
                 transform_booking_data(booking_data, depart_flights.value, <<>>)
         IN  IF transformed_data.raised
             THEN /\ Return(h, booking_data.order, "processing_failed")
                  /\ UNCHANGED sent
             ELSE /\ Suspend(h, "single_emit", booking_data, NoBooking, <<>>,
                             depart_flights.value, transformed_data.value)
                  /\ sent' = sent \cup {[req |-> h, existing |-> NoId]}

\* lines 172-175: resolve the booking, suspending when its search is called
ProcessSingle(h, booking_data) ==
    IF CallsSearch(booking_data)
    THEN /\ Suspend(h, "single_search", booking_data, NoBooking, <<>>, <<>>, NoData)
         /\ UNCHANGED sent
    ELSE SendSingle(h, booking_data,
                    get_flight_identifiers_from_api(booking_data, SearchFailure))

\* a webhook of a booking without an order arrives and its handler runs to
\* its first await
ReceiveSingle(h) ==
    /\ task[h].pc = "idle"
    /\ \A g \in Reqs : g < h => task[g].pc # "idle"
    /\ \E leg \in Legs : ProcessSingle(h, SingleBooking(h, leg))
    /\ round_trip_bookings' = StoreAtSingle(round_trip_bookings, now)
    /\ UNCHANGED <<now, last_op, call>>

\* line 175: search_flights returns
SingleSearched(h) ==
    /\ task[h].pc = "single_search"
    /\ \E search_result \in SearchResults :
          SendSingle(h, task[h].booking_data,
                     get_flight_identifiers_from_api(task[h].booking_data, search_result))
    /\ round_trip_bookings' = StoreAtSingle(round_trip_bookings, now)
    /\ UNCHANGED <<now, last_op, call>>

\* lines 186-203: send_to_makersuite_api returns
SingleEmitted(h) ==
    /\ task[h].pc = "single_emit"
    /\ \E api_result \in ApiResults :
          ReturnOutcome(h, task[h].order_id, SingleEmitOutcome(api_result))
    /\ round_trip_bookings' = StoreAtSingle(round_trip_bookings, now)
    /\ UNCHANGED <<now, sent, last_op, call>>

NextSingle ==
    \/ \E h \in Reqs : ReceiveSingle(h)
    \/ \E h \in Reqs : SingleSearched(h)
    \/ \E h \in Reqs : SingleEmitted(h)
    \/ Tick

SpecSingle == InitStore /\ [][NextSingle]_vars

\* ------------------------------------------------------------------------
\* src/app/helpers.py: get_flight_identifiers_from_api called on its own,
\* cut at its await
\* ------------------------------------------------------------------------

\* the lists of at most n elements over a set
RECURSIVE ListsOver(_, _)
ListsOver(S, n) ==
    IF n = 0 THEN {<<>>}
    ELSE LET shorter == ListsOver(S, n - 1)
         IN  shorter \cup {Append(l, x) : l \in {m \in shorter : Len(m) = n - 1},
                                          x \in S}

\* the lists of ListsOver(S, n) that hold no element twice
DistinctListsOver(S, n) ==
    {l \in ListsOver(S, n) : \A i, j \in 1..Len(l) : l[i] = l[j] => i = j}

\* a custom field named "Flight Number" whose value and display value are
\* the text n
FlightNumberValueField(n) ==
    [has_keys |-> TRUE, flight_number_label |-> TRUE, name_number |-> NoText,
     value |-> n, display_value |-> n]

\* a custom field named otherwise, say "Seat"
OtherField ==
    [has_keys |-> TRUE, flight_number_label |-> FALSE, name_number |-> NoText,
     value |-> NoText, display_value |-> NoText]

\* the custom fields a booking may carry, each at most once
CustomFields ==
    {FlightNumberField(<<5, 1, 7>>), FlightNumberValueField(<<5, 1, 6>>), OtherField,
     KeylessField}

\* a start_at that is no ISO date-time
BadDate == [ymd |-> 28, hour |-> 10, off |-> -4, tz |-> "bad"]

\* the bookings the resolver is called with: with and without two airport
\* codes, a parseable start, a headline that ends in a flight number and an
\* item pk
ResolverBookings ==
    {[Booking("BUJP", 1, [item_name |-> item_name, item_pk |-> item_pk,
                          headline |-> headline, custom_field_values |-> cfv])
        EXCEPT !.start_at = start_at] :
        item_name \in {<<"COX", "FXE">>, <<"FXE">>},
        item_pk \in {81645, NoId},
        headline \in {<<5, 1, 7>>, NoText},
        cfv \in DistinctListsOver(CustomFields, MaxLen),
        start_at \in {StartAt, BadDate}}

\* a candidate of a search response
Candidate(ymd, hour, off, tz, number, identifier) ==
    [FlightDate |-> [ymd |-> ymd, hour |-> hour, off |-> off, tz |-> tz],
     FlightNumber |-> number, FlightIdentifier |-> identifier]

\* the values a candidate may hold as its identifier
IntId(n) == [kind |-> "int", n |-> n]
NonNumericId == [kind |-> "str", n |-> NoId]
NoIdentifier == [kind |-> "none", n |-> NoId]

\* the lists of candidates a search response may hold: none, the flights of
\* the day of the test data, the flights of another day, and a list whose
\* flight 517 carries an identifier that is no number
ResponseLists ==
    { <<>>,
      SearchHit.response.list,
      << Candidate(29, 10, -4, "hh:mm", <<5, 1, 7>>, IntId(3001)) >>,
      << Candidate(28, 10, -4, "hh:mm", <<5, 1, 7>>, NonNumericId),
         Candidate(28, 12, -4, "hh:mm", <<5, 1, 7>>, IntId(1002)) >> }

\* a successful search whose response is an object holding flight_list
\* under key
Wrapped(key, flight_list) ==
    [success |-> TRUE,
     response |-> [kind |-> "dict", list |-> <<>>,
                   flights |-> IF key = "flights" THEN flight_list ELSE <<>>,
                   FlightList |-> IF key = "FlightList" THEN flight_list ELSE <<>>,
                   data |-> IF key = "data" THEN flight_list ELSE <<>>]]

\* successful searches whose response is an object holding a list under two
\* of its keys: the flights of the day of the test data under one, those of
\* another day under the other
WrappedTwice ==
    LET day == SearchHit.response.list
        other == << Candidate(29, 10, -4, "hh:mm", <<5, 1, 7>>, IntId(3001)) >>
    IN  { [Wrapped("flights", l[1]) EXCEPT !.response.FlightList = l[2]] :
              l \in {<<day, other>>, <<other, day>>} }
            \cup { [Wrapped("flights", l[1]) EXCEPT !.response.data = l[2]] :
                       l \in {<<day, other>>, <<other, day>>} }
            \cup { [Wrapped("FlightList", l[1]) EXCEPT !.response.data = l[2]] :
                       l \in {<<day, other>>, <<other, day>>} }

\* what search_flights may return: a failure (of the transport, or a status
\* other than 200), a response that is neither list nor object, a bare list,
\* or an object holding the list under one of its keys, under two, or under
\* none
AllSearchResults ==
    {SearchFailure}
        \cup {[SearchFailure EXCEPT !.success = TRUE]}
        \cup {[SearchHit EXCEPT !.response.list = l] : l \in ResponseLists}
        \cup {Wrapped(key, l) : key \in {"flights", "FlightList", "data"},
                                l \in ResponseLists}
        \cup WrappedTwice

\* the resolver is about to be called with some booking
InitResolve ==
    /\ round_trip_bookings = EmptyStore
    /\ now = 0
    /\ task = [h \in Reqs |-> Idle]
    /\ sent = {}
    /\ last_op = NoOp
    /\ call \in {[NoCall EXCEPT !.op = "resolve", !.pc = "start", !.booking_data = b] :
                   b \in ResolverBookings}

\* lines 67-73 and 118-121: the search payload is built and search_flights
\* is called, or the build raises and the except clause returns the fallback
BuildPayload ==
    /\ call.op = "resolve"
    /\ call.pc = "start"
    /\ call' = IF CallsSearch(call.booking_data)
                THEN [call EXCEPT !.pc = "search", !.searched = TRUE]
                ELSE [call EXCEPT !.pc = "done",
                                  !.result = get_flight_identifiers_from_api(
                                                 call.booking_data, SearchFailure)]
    /\ UNCHANGED <<round_trip_bookings, now, task, sent, last_op>>

\* lines 73-121: search_flights returns and the resolver runs to its return
SearchReturned ==
    /\ call.op = "resolve"
    /\ call.pc = "search"
    /\ \E search_result \in AllSearchResults :
          call' = [call EXCEPT !.pc = "done", !.search_result = search_result,
                               !.result = get_flight_identifiers_from_api(
                                              call.booking_data, search_result)]
    /\ UNCHANGED <<round_trip_bookings, now, task, sent, last_op>>

NextResolve ==
    \/ BuildPayload
    \/ SearchReturned

SpecResolve == InitResolve /\ [][NextResolve]_vars

\* ------------------------------------------------------------------------
\* src/app/helpers.py: find_flight_identifier called on its own
\* ------------------------------------------------------------------------

\* the date-times of candidates: a day in the morning and late in the
\* evening, written with two forms of offset, the next day written with a Z,
\* and a text that is no date-time
MatchDates ==
    { [ymd |-> 28, hour |-> 10, off |-> -4, tz |-> "hhmm"],
      [ymd |-> 28, hour |-> 22, off |-> -4, tz |-> "hh:mm"],
      [ymd |-> 29, hour |-> 1, off |-> 0, tz |-> "Z"],
      BadDate }

\* the date-times of targets: those of the test data and of the next day, a
\* text that is no date-time, and the empty text
TargetDates == {StartAt, [ymd |-> 29, hour |-> 1, off |-> 0, tz |-> "Z"], BadDate, NoDate}

\* the flight-number texts of candidates and targets
MatchNumbers == {<<5, 1, 7>>, <<0, 5, 1, 7>>}

\* the candidates of a flight list
Candidates ==
    {[FlightDate |-> d, FlightNumber |-> n, FlightIdentifier |-> id] :
        d \in MatchDates, n \in MatchNumbers,
        id \in {IntId(1001), IntId(2001), NoIdentifier, NonNumericId}}

\* the matcher is about to be called with some list and some target
InitMatch ==
    /\ round_trip_bookings = EmptyStore
    /\ now = 0
    /\ task = [h \in Reqs |-> Idle]
    /\ sent = {}
    /\ last_op = NoOp
    /\ call \in {[NoCall EXCEPT !.op = "match", !.pc = "start", !.flight_list = l,
                                 !.flight_date = d, !.flight_number = n] :
                   l \in ListsOver(Candidates, MaxLen),
                   d \in TargetDates,
                   n \in MatchNumbers}

\* lines 327-389: the matcher runs to its return, or raises
Match ==
    /\ call.op = "match"
    /\ call.pc = "start"
    /\ call' = [call EXCEPT !.pc = "done",
                             !.result = find_flight_identifier(call.flight_list,
                                            call.flight_date, call.flight_number)]
    /\ UNCHANGED <<round_trip_bookings, now, task, sent, last_op>>

NextMatch == Match

SpecMatch == InitMatch /\ [][NextMatch]_vars

\* ------------------------------------------------------------------------
\* src/app/helpers.py: find_flight_identifier called again after the offset
\* of one of its date-times is written in another form
\* ------------------------------------------------------------------------

\* the texts that state the same date-time as date with another form of
\* offset: (+|-)HHMM and (+|-)HH:MM for any offset, and Z for the offset 0
Rewritings(date) ==
    IF date.tz \in {"hhmm", "hh:mm", "Z"}
    THEN {[date EXCEPT !.tz = tz] :
             tz \in {"hhmm", "hh:mm"} \cup (IF date.off = 0 THEN {"Z"} ELSE {})}
    ELSE {date}

\* the date-times of candidates and targets, in each form of their offset
RewriteDates ==
    UNION {Rewritings(d) : d \in {StartAt, [ymd |-> 29, hour |-> 1, off |-> 0, tz |-> "Z"]}}

\* the candidates of a flight list
RewriteCandidates ==
    {[FlightDate |-> d, FlightNumber |-> <<5, 1, 7>>, FlightIdentifier |-> id] :
        d \in RewriteDates, id \in {IntId(1001), IntId(2001)}}

InitRewrite ==
    /\ round_trip_bookings = EmptyStore
    /\ now = 0
    /\ task = [h \in Reqs |-> Idle]
    /\ sent = {}
    /\ last_op = NoOp
    /\ call \in {[NoCall EXCEPT !.op = "match", !.pc = "start", !.flight_list = l,
                                 !.flight_date = d, !.flight_number = <<5, 1, 7>>] :
                   l \in ListsOver(RewriteCandidates, MaxLen),
                   d \in RewriteDates}

\* the matcher is called again with the offset of the target rewritten
RewriteTarget ==
    /\ call.op = "match"
    /\ call.pc = "done"
    /\ \E d \in Rewritings(call.flight_date) \ {call.flight_date} :
          call' = [call EXCEPT !.flight_date = d, !.rewritten = TRUE,
                               !.result = find_flight_identifier(call.flight_list, d,
                                                                 call.flight_number)]
    /\ UNCHANGED <<round_trip_bookings, now, task, sent, last_op>>

\* the matcher is called again with the offset of a candidate rewritten
RewriteCandidate ==
    /\ call.op = "match"
    /\ call.pc = "done"
    /\ \E i \in 1..Len(call.flight_list) :
          \E d \in Rewritings(call.flight_list[i].FlightDate)
                      \ {call.flight_list[i].FlightDate} :
             LET flight_list == [call.flight_list EXCEPT ![i].FlightDate = d]
             IN  call' = [call EXCEPT !.flight_list = flight_list, !.rewritten = TRUE,
                                      !.result = find_flight_identifier(flight_list,
                                                     call.flight_date, call.flight_number)]
    /\ UNCHANGED <<round_trip_bookings, now, task, sent, last_op>>

NextRewrite ==
    \/ Match
    \/ RewriteTarget
    \/ RewriteCandidate

SpecRewrite == InitRewrite /\ [][NextRewrite]_vars

\* ------------------------------------------------------------------------
\* Properties
\* ------------------------------------------------------------------------

\* the handlers whose payload has been handed to send_to_makersuite_api and
\* whose call has not returned
Emitting == {h \in Reqs : task[h].pc = "emit"}

\* the handlers between their lookup of the order and their own put or remove
InFlight == {h \in Reqs : task[h].pc \in {"search_first", "search_existing",
                                          "search_current", "emit"}}

\* what get_flight_identifiers_from_api can return for a booking
Resolutions(booking_data) ==
    LET returns == {get_flight_identifiers_from_api(booking_data, search_result) :
                       search_result \in SearchResults}
    IN  {flights.value : flights \in {r \in returns : ~r.raised}}

\* C1: whenever a payload is handed to the emitter, its ReturnFlights are the
\* identifiers resolved for the stored booking, which arrived first, and its
\* DepartFlights those resolved for the booking that just arrived, whatever
\* the route of either
C1_FirstIsReturnSecondIsDepart ==
    \A h \in Emitting :
        LET t == task[h]
        IN  /\ t.existing_booking.order = t.booking_data.order
            /\ t.existing_booking.pk < t.booking_data.pk
            /\ t.transformed_data.ReturnFlights = t.existing_flights
            /\ t.existing_flights \in Resolutions(t.existing_booking)
            /\ t.transformed_data.DepartFlights = t.current_flights
            /\ t.current_flights \in Resolutions(t.booking_data)

\* C1: a payload is being emitted for a stored booking that leaves FXE and a
\* new one that leaves COX, with different identifiers for the two legs
C1_Witness ==
    \E h \in Emitting :
        /\ task[h].existing_booking.item_name = <<"FXE", "COX">>
        /\ task[h].booking_data.item_name = <<"COX", "FXE">>
        /\ task[h].transformed_data.ReturnFlights = <<2001>>
        /\ task[h].transformed_data.DepartFlights = <<1001>>

\* C2: a handler that resumes from its search puts its booking only when the
\* store holds no entry for the order
C2_PutOnlyWhenAbsent ==
    [][\A h \in Reqs :
          (task[h].pc = "search_first" /\ task'[h].result = "stored")
              => ~has_round_trip_booking(round_trip_bookings, task[h].order_id)]_vars

\* C3: each stored booking is part of at most one payload handed to the emitter
C3_EmitOncePerStoredBooking ==
    \A e1, e2 \in sent : e1.existing = e2.existing => e1.req = e2.req

\* C4: while a handler is between its lookup and its own put or remove, no
\* other handler looks the same order up, and the entry of the order does not
\* change
C4_CheckThenActAtomic ==
    [][\A h \in InFlight :
          task'[h] = task[h] =>
              /\ get_round_trip_booking(round_trip_bookings', task[h].order_id)
                     = get_round_trip_booking(round_trip_bookings, task[h].order_id)
              /\ \A g \in Reqs :
                    (task[g].pc = "idle" /\ task'[g].pc # "idle")
                        => task'[g].order_id # task[h].order_id]_vars

C6_RemovedWhateverEmitReturns ==
    [][\A h \in Reqs :
          (task[h].pc = "emit" /\ task'[h].result \in {"combined_failed", "combined_sent"})
              => ~has_round_trip_booking(round_trip_bookings', task[h].order_id)]_vars

\* C6: a handler has returned the emit failure and its order has no entry
C6_Witness ==
    \E h \in Reqs :
        /\ task[h].result = "combined_failed"
        /\ ~has_round_trip_booking(round_trip_bookings, task[h].order_id)

\* the handlers of order k that have returned
Returned(k) == {h \in Reqs : task[h].pc = "done" /\ task[h].order_id = k}

\* the two outcomes of a combination
CombinedResults == {"combined_sent", "combined_failed"}

\* C7: when the webhooks of an order are handled one at a time and nothing
\* reaches the TTL, the first returns "stored" and leaves the entry of the
\* order, the next returns a combined outcome and leaves none, and so on in
\* turn for every later webhook of the order
C7_StoredThenCombinedInTurn ==
    \A k \in Keys :
        /\ \A h \in Returned(k) :
              /\ task[h].result \in {"stored"} \cup CombinedResults
              /\ (k \notin DOMAIN PendingStore /\ \A g \in Returned(k) : h <= g)
                    => task[h].result = "stored"
              /\ \A g \in Returned(k) :
                    (g < h /\ \A f \in Returned(k) : ~(g < f /\ f < h))
                        => (task[g].result = "stored") # (task[h].result = "stored")
              /\ (NoneInFlight(k) /\ \A g \in Returned(k) : g <= h)
                    => IF task[h].result = "stored"
                       THEN /\ has_round_trip_booking(round_trip_bookings, k)
                            /\ round_trip_bookings[k].booking_data.pk = h
                       ELSE ~has_round_trip_booking(round_trip_bookings, k)

\* C8: a sweep removes the entries older than the TTL and leaves every other
\* entry as it was
C8_SweepRemovesExactlyTheOld ==
    [][(last_op'.name = "sweep" /\ now' = now) =>
          \A k \in Keys :
              IF /\ k \in DOMAIN round_trip_bookings
                 /\ now - round_trip_bookings[k].first_received_at > ROUND_TRIP_CLEANUP_HOURS
              THEN k \notin DOMAIN round_trip_bookings'
              ELSE get_round_trip_booking(round_trip_bookings', k)
                       = get_round_trip_booking(round_trip_bookings, k)]_vars

\* C8: a sweep has removed an entry and left one that is exactly as old as
\* the TTL
C8_Witness ==
    /\ last_op.name = "sweep"
    /\ last_op.at = now
    /\ last_op.removed # {}
    /\ \E k \in DOMAIN round_trip_bookings :
          now - round_trip_bookings[k].first_received_at = ROUND_TRIP_CLEANUP_HOURS

\* C9: a webhook handled while the entry of its order is older than the TTL
\* takes the store branch, holds nothing of that entry, and once it has
\* returned has put its own booking (the one that returned last holds the
\* entry)
C9_ExpiredEntryIsNotCombined ==
    [][\A h \in Reqs :
          (/\ task[h].pc = "idle"
           /\ task'[h].pc # "idle"
           /\ task'[h].order_id \in DOMAIN round_trip_bookings
           /\ now - round_trip_bookings[task'[h].order_id].first_received_at
                  > ROUND_TRIP_CLEANUP_HOURS)
          => /\ task'[h].pc \in {"search_first", "done"}
             /\ task'[h].existing_booking = NoBooking
             /\ sent' = sent
             /\ task'[h].pc = "done" =>
                   /\ task'[h].result = "stored"
                   /\ round_trip_bookings'[task'[h].order_id].booking_data.pk = h
                   /\ round_trip_bookings'[task'[h].order_id].first_received_at = now
             /\ task'[h].pc = "search_first" =>
                   task'[h].order_id \notin DOMAIN round_trip_bookings']_vars

\* C10: a sweep that follows a sweep, with no time elapsed and no other
\* storage call in between, leaves the store as it is
C10_SecondSweepRemovesNothing ==
    [][(last_op.name = "sweep" /\ last_op.at = now /\ last_op'.name = "sweep" /\ now' = now)
          => round_trip_bookings' = round_trip_bookings]_vars

\* C10: a sweep has followed a sweep that removed an entry, and an entry is
\* left
C10_Witness ==
    /\ last_op.name = "sweep"
    /\ last_op.again
    /\ last_op.prior_removed # {}
    /\ last_op.removed = {}
    /\ DOMAIN round_trip_bookings # {}

\* C11: a remove leaves no entry for its key and every other key's entry as
\* it was; on a key that has no entry it changes nothing; and a second remove
\* of the same key changes nothing more
C11_RemoveIsIdempotent ==
    [][(last_op'.name = "remove" /\ now' = now) =>
          LET key == last_op'.key
          IN  /\ ~has_round_trip_booking(round_trip_bookings', key)
              /\ get_round_trip_booking(round_trip_bookings', key) = <<>>
              /\ \A k \in Keys \ {key} :
                    get_round_trip_booking(round_trip_bookings', k)
                        = get_round_trip_booking(round_trip_bookings, k)
              /\ ~has_round_trip_booking(round_trip_bookings, key)
                    => round_trip_bookings' = round_trip_bookings
              /\ remove_round_trip_booking(round_trip_bookings', key)
                    = round_trip_bookings']_vars

\* C11: a remove has deleted the entry of its key and the other key still
\* has its entry
C11_Witness ==
    /\ last_op.name = "remove"
    /\ last_op.removed = {last_op.key}
    /\ ~has_round_trip_booking(round_trip_bookings, last_op.key)
    /\ \E k \in Keys \ {last_op.key} : has_round_trip_booking(round_trip_bookings, k)

\* C12: a put leaves an entry for its key that holds the booking and the
\* flights it was given and the hour of the put; get returns none exactly
\* for the keys has is false for; an entry appears only by a put of its key,
\* and a remove leaves none
C12_PutThenGet ==
    [][/\ (last_op'.name = "put" /\ now' = now) =>
             /\ has_round_trip_booking(round_trip_bookings', last_op'.key)
             /\ get_round_trip_booking(round_trip_bookings', last_op'.key)
                    = << [booking_data |-> last_op'.booking_data,
                          flights |-> last_op'.flights,
                          first_received_at |-> now] >>
       /\ \A k \in Keys :
             /\ (get_round_trip_booking(round_trip_bookings', k) = <<>>)
                    <=> ~has_round_trip_booking(round_trip_bookings', k)
             /\ (has_round_trip_booking(round_trip_bookings', k)
                    /\ ~has_round_trip_booking(round_trip_bookings, k))
                  => (last_op'.name = "put" /\ last_op'.key = k)
             /\ (last_op'.name = "remove" /\ last_op'.key = k /\ now' = now)
                  => get_round_trip_booking(round_trip_bookings', k) = <<>>]_vars

\* C12: a put made after the clock advanced has overwritten nothing but its
\* own key, which holds its flights and the hour of the put, while the other
\* key has no entry
C12_Witness ==
    /\ last_op.name = "put"
    /\ last_op.at = now
    /\ now = MaxTime
    /\ has_round_trip_booking(round_trip_bookings, last_op.key)
    /\ round_trip_bookings[last_op.key].first_received_at = now
    /\ round_trip_bookings[last_op.key].flights = <<1001>>
    /\ \E k \in Keys : get_round_trip_booking(round_trip_bookings, k) = <<>>

\* the resolver has returned or raised
Resolved == call.op = "resolve" /\ call.pc = "done"

\* the matcher has returned or raised
Matched == call.op = "match" /\ call.pc = "done"

\* a text that states a date-time, with any form of offset or with none
WellFormed(date) == date.ymd > 0 /\ date.tz \in {"hhmm", "hh:mm", "Z", "none"}

\* the candidate is of the day the target states, each day taken as its own
\* text states it, and of the flight number of the target, text for text
Matching(flight, flight_date, flight_number) ==
    /\ WellFormed(flight.FlightDate)
    /\ WellFormed(flight_date)
    /\ flight.FlightDate.ymd = flight_date.ymd
    /\ flight_number # NoText
    /\ flight.FlightNumber = flight_number

\* the flight numbers of the custom fields of a booking whose label contains
\* "Flight Number", in the order of the fields
LabelledFlightNumbers(booking_data) ==
    LET Yields(f) == f.flight_number_label /\ (f.name_number # NoText \/ f.value # NoText)
        fields == SelectSeq(booking_data.custom_field_values, Yields)
    IN  [i \in 1..Len(fields) |->
            ToInt(IF fields[i].name_number # NoText THEN fields[i].name_number
                  ELSE fields[i].value)]

\* the list of candidates a search result holds, <<>> when it holds none
ResponseFlightList(search_result) ==
    LET response == search_result.response
    IN  IF ~search_result.success THEN <<>>
        ELSE IF response.kind = "list" THEN response.list
        ELSE IF response.kind # "dict" THEN <<>>
        ELSE IF response.flights # <<>> THEN response.flights
        ELSE IF response.FlightList # <<>> THEN response.FlightList
        ELSE response.data

\* the least element of a non-empty set of numbers
Least(S) == CHOOSE i \in S : \A j \in S : i <= j

\* C13: the resolver returns a list for every booking and every outcome of
\* the search; it never raises
C13_ResolverNeverRaises ==
    Resolved => ~call.result.raised

\* C14: when the search was called and failed, or its response is of no
\* known shape or holds no flight, the resolver returns the flight numbers of
\* the custom fields labelled "Flight Number" whenever there are any, and in
\* any case returns
C14_FallbackWhenSearchFails ==
    (Resolved /\ call.searched /\ ResponseFlightList(call.search_result) = <<>>)
        => /\ ~call.result.raised
           /\ LabelledFlightNumbers(call.booking_data) # <<>>
                 => call.result.value = LabelledFlightNumbers(call.booking_data)

\* C15: the resolver returns the identifier of the first candidate of the
\* search that matches the target of the booking and carries an identifier,
\* as a list of one; with no such candidate, the flight numbers of the
\* labelled custom fields; with none of these either, the item pk
C15_StrategiesInOrder ==
    Resolved =>
        LET booking_data == call.booking_data
            target == extract_flight_date_and_number(booking_data)
            flight_list == IF call.searched THEN ResponseFlightList(call.search_result)
                           ELSE <<>>
            hits == {i \in 1..Len(flight_list) :
                        /\ Matching(flight_list[i], target.flight_date, target.flight_number)
                        /\ flight_list[i].FlightIdentifier.kind # "none"}
            numbers == LabelledFlightNumbers(booking_data)
        IN  IF hits # {}
            THEN call.result = Ok(<<flight_list[Least(hits)].FlightIdentifier.n>>)
            ELSE IF numbers # <<>> THEN call.result = Ok(numbers)
            ELSE IF booking_data.item_pk # NoId THEN call.result = Ok(<<booking_data.item_pk>>)
            ELSE call.result = Ok(<<>>)

\* C16: an identifier the matcher returns is that of a candidate of the day
\* and of the flight number of the target, and with no such candidate the
\* matcher returns none
C16_MatchIsOnDayAndNumber ==
    Matched =>
        LET matching == {i \in 1..Len(call.flight_list) :
                            Matching(call.flight_list[i], call.flight_date,
                                     call.flight_number)}
        IN  /\ (~call.result.raised /\ call.result.value # NoId)
                  => \E i \in matching :
                        IntOfIdentifier(call.flight_list[i].FlightIdentifier) = call.result
            /\ matching = {} => call.result = Ok(NoId)

\* C16: the matcher has returned the identifier of the second candidate,
\* after a first one of the same day whose flight number differs from the
\* target by a leading zero
C16_Witness ==
    /\ Matched
    /\ Len(call.flight_list) = 2
    /\ call.flight_number = <<5, 1, 7>>
    /\ call.flight_list[1].FlightNumber = <<0, 5, 1, 7>>
    /\ call.flight_list[1].FlightIdentifier = IntId(2001)
    /\ call.flight_list[1].FlightDate.ymd = call.flight_date.ymd
    /\ WellFormed(call.flight_list[1].FlightDate)
    /\ call.result = Ok(1001)

\* C17: when several candidates that carry an identifier match the target,
\* the matcher returns the identifier of the first of them in the list
C17_FirstMatchWins ==
    Matched =>
        LET matching == {i \in 1..Len(call.flight_list) :
                            /\ Matching(call.flight_list[i], call.flight_date,
                                        call.flight_number)
                            /\ call.flight_list[i].FlightIdentifier.kind # "none"}
        IN  Cardinality(matching) >= 2
                => call.result = Ok(call.flight_list[Least(matching)].FlightIdentifier.n)

\* C18: calling the matcher again after the offset of the target or of a
\* candidate is written in another form gives the same result
C18_OffsetFormIsIrrelevant ==
    [][(Matched /\ call'.pc = "done") => call'.result = call.result]_vars

\* C18: the matcher has returned the identifier of a candidate written with
\* (+|-)HHMM for a target written with a Z, after a rewrite
C18_Witness ==
    /\ Matched
    /\ call.rewritten
    /\ call.flight_date.tz = "Z"
    /\ Len(call.flight_list) = 2
    /\ call.flight_list[1].FlightDate.ymd # call.flight_date.ymd
    /\ call.flight_list[2].FlightDate.tz = "hhmm"
    /\ call.result = Ok(call.flight_list[2].FlightIdentifier.n)

\* the calls of send_to_makersuite_api made so far by the handler of h
EmitsOf(emits, h) == {e \in emits : e.req = h}

\* C19: a handler that has returned has returned stored-pending,
\* combined-and-emitted or combined-but-emit-failed, and nothing else
C19_OneOfThreeOutcomes ==
    \A h \in Reqs :
        task[h].pc = "done" => task[h].result \in {"stored"} \cup CombinedResults

C22_PassengersFromStoredBooking ==
    \A h \in Emitting :
        /\ task[h].transformed_data.Passengers = task[h].existing_booking.customers
        /\ task[h].transformed_data.Passengers # task[h].booking_data.customers

\* C22: a payload is being emitted whose passengers are those of the stored
\* booking of the order, while the new booking carries others
C22_Witness ==
    \E h \in Emitting :
        /\ task[h].existing_booking.order = task[h].booking_data.order
        /\ task[h].existing_booking.customers # task[h].booking_data.customers
        /\ task[h].transformed_data.Passengers = task[h].existing_booking.customers

\* C23: the remove that ends a combination deletes no entry other than the
\* one the combination read: an entry that another webhook put under the
\* same key after the combination started is left in place
C23_RemoveDeletesOnlyWhatWasRead ==
    [][\A h \in Reqs :
          (task[h].pc = "emit" /\ task'[h].pc = "done")
              => \A k \in DOMAIN round_trip_bookings \ DOMAIN round_trip_bookings' :
                    round_trip_bookings[k].booking_data = task[h].existing_booking]_vars

\* no booking put by a handler can have outlived ROUND_TRIP_CLEANUP_HOURS
\* yet: the handlers start at hour 1
NoExpiryYet == now - 1 <= ROUND_TRIP_CLEANUP_HOURS

\* C24: when two webhooks of an order have both returned an outcome of their
\* own (stored or combined) and no booking of theirs has expired, a payload
\* for the order has been handed to the emitter by one of them
C24_PairIsCombined ==
    \A k \in Keys : \A g, h \in Returned(k) :
        (/\ g # h
         /\ task[g].result \in {"stored"} \cup CombinedResults
         /\ task[h].result \in {"stored"} \cup CombinedResults
         /\ NoExpiryYet)
        => \E e \in sent : e.req \in Returned(k)

\* the combining handlers that have read the stored booking of their order
\* and whose entry has since been evicted: the order has no entry, or the
\* entry of another booking
EvictedUnder ==
    {h \in Reqs :
        /\ task[h].pc \in {"search_existing", "search_current", "emit"}
        /\ get_round_trip_booking(round_trip_bookings, task[h].order_id) # <<>>
              => round_trip_bookings[task[h].order_id].booking_data
                     # task[h].existing_booking}

\* C25: a combining handler whose entry was evicted after it read it goes
\* on: it resolves, hands the emitter a payload built from the booking it
\* read, and returns a combine outcome
C25_EvictionDoesNotStopCombination ==
    [][\A h \in EvictedUnder :
          task'[h] # task[h] =>
              /\ task[h].pc # "emit" => task'[h].pc \in {"search_current", "emit"}
              /\ (task[h].pc # "emit" /\ task'[h].pc = "emit") =>
                    /\ task'[h].existing_booking = task[h].existing_booking
                    /\ task'[h].transformed_data.Passengers
                           = task[h].existing_booking.customers
                    /\ [req |-> h, existing |-> task[h].existing_booking.pk] \in sent'
              /\ task[h].pc = "emit" =>
                    /\ task'[h].pc = "done"
                    /\ task'[h].result \in CombinedResults]_vars

\* the combining handlers whose stored booking makes transform_booking_data
\* raise
TransformWillRaise ==
    {h \in Reqs :
        /\ task[h].pc \in {"search_existing", "search_current"}
        /\ transform_booking_data(task[h].existing_booking, <<>>, <<>>).raised}

\* C26: a combination whose transform raises ends in the except clause with
\* no emit call and with the store as it was, so the entry of the order
\* stays; and a webhook that arrives while the order has an entry within the
\* TTL takes the combine branch
C26_TransformFailureKeepsEntry ==
    [][/\ \A h \in TransformWillRaise :
             task'[h] # task[h] =>
                 /\ task'[h].pc # "emit"
                 /\ EmitsOf(sent', h) = {}
                 /\ task'[h].pc = "done" =>
                       /\ task'[h].result = "processing_failed"
                       /\ round_trip_bookings' = round_trip_bookings
       /\ \A g \in Reqs :
             (/\ task[g].pc = "idle"
              /\ task'[g].pc # "idle"
              /\ has_round_trip_booking(cleanup_old_bookings(round_trip_bookings, now),
                                        task'[g].order_id))
             => /\ task'[g].pc # "search_first"
                /\ task'[g].result # "stored"]_vars

\* C26: a combining handler has resolved the stored booking of its order,
\* whose transform will raise, and its own booking resolves without raising;
\* the entry it read is in the store
C26_Witness ==
    \E h \in TransformWillRaise :
        /\ task[h].pc = "search_current"
        /\ \A i \in 1..Len(task[h].booking_data.custom_field_values) :
              task[h].booking_data.custom_field_values[i].has_keys
        /\ get_round_trip_booking(round_trip_bookings, task[h].order_id) # <<>>
        /\ round_trip_bookings[task[h].order_id].booking_data = task[h].existing_booking

\* C27: a handler that finds an entry whose booking needs the search calls
\* the search for it, holding no identifiers yet; and the ReturnFlights and
\* DepartFlights of a payload handed to the emitter are what the resolver
\* returned to this handler for the stored booking and for the new one
C27_BothLegsResolvedAtCombine ==
    [][\A h \in Reqs :
          /\ (/\ task[h].pc = "idle"
              /\ task'[h].pc # "idle"
              /\ has_round_trip_booking(cleanup_old_bookings(round_trip_bookings, now),
                                        task'[h].order_id)
              /\ CallsSearch(round_trip_bookings[task'[h].order_id].booking_data))
             => /\ task'[h].pc = "search_existing"
                /\ task'[h].existing_booking
                       = round_trip_bookings[task'[h].order_id].booking_data
                /\ task'[h].existing_flights = <<>>
          /\ (task[h].pc # "emit" /\ task'[h].pc = "emit")
             => /\ task'[h].transformed_data.ReturnFlights = task'[h].existing_flights
                /\ task'[h].existing_flights \in Resolutions(task'[h].existing_booking)
                /\ task'[h].transformed_data.DepartFlights = task'[h].current_flights
                /\ task'[h].current_flights \in Resolutions(task'[h].booking_data)
                /\ task[h].pc = "search_current"
                      => task'[h].existing_flights = task[h].existing_flights]_vars

\* C27: a payload is being emitted whose ReturnFlights differ from the
\* flights saved with the entry of the stored booking, which is still there
C27_Witness ==
    \E h \in Emitting :
        /\ get_round_trip_booking(round_trip_bookings, task[h].order_id) # <<>>
        /\ round_trip_bookings[task[h].order_id].booking_data = task[h].existing_booking
        /\ round_trip_bookings[task[h].order_id].flights
               # task[h].transformed_data.ReturnFlights
        /\ task[h].transformed_data.ReturnFlights \in Resolutions(task[h].existing_booking)

\* C28: with no round-trip webhook, the store stays as it is through every
\* hour that passes and every step of a single-trip handler: an entry older
\* than the TTL is still there
C28_OnlyRoundTripWebhooksSweep ==
    [][round_trip_bookings' = round_trip_bookings]_vars

\* C28: an entry older than the TTL is in the store at the last hour, after
\* one single-trip handler has returned and while another awaits its emit
\* call
C28_Witness ==
    /\ now = MaxTime
    /\ \E k \in DOMAIN round_trip_bookings :
          now - round_trip_bookings[k].first_received_at > ROUND_TRIP_CLEANUP_HOURS
    /\ \E g, h \in Reqs :
          /\ task[g].result \in {"single_sent", "single_failed"}
          /\ task[h].pc = "single_emit"

\* C29: a handler that found no entry for its order has made no emit call,
\* while it awaits its search and once it has stored; every emit call pairs
\* a delivery with the stored booking of an earlier one, and the payload
\* being emitted is built from a stored booking of the same order and holds
\* the identifiers resolved for that booking and for the new one
C29_EmitOnlyByCombiningHandler ==
    /\ \A h \in Reqs :
          (task[h].pc = "search_first" \/ task[h].result = "stored")
              => EmitsOf(sent, h) = {}
    /\ \A e \in sent : e.existing # NoId /\ e.existing < e.req
    /\ \A h \in Emitting :
          /\ [req |-> h, existing |-> task[h].existing_booking.pk] \in sent
          /\ task[h].existing_booking # NoBooking
          /\ task[h].existing_booking.order = task[h].order_id
          /\ task[h].booking_data.order = task[h].order_id
          /\ task[h].existing_booking.pk # task[h].booking_data.pk
          /\ task[h].transformed_data.ReturnFlights
                 \in Resolutions(task[h].existing_booking)
          /\ task[h].transformed_data.DepartFlights
                 \in Resolutions(task[h].booking_data)

\* C29: a handler that found no entry has stored its booking without an
\* emit call, and the handler of a later delivery of the order is emitting
\* the payload built from that booking
C29_Witness ==
    \E g, h \in Reqs :
        /\ task[g].result = "stored"
        /\ EmitsOf(sent, g) = {}
        /\ h \in Emitting
        /\ task[h].existing_booking.pk = g
        /\ task[h].order_id = task[g].order_id

\* C30: a step in which no handler puts its booking (a lookup with its
\* sweep, a resolution, the transform, the emit call and its return) leaves
\* every entry that is still in the store with the booking, the flights and
\* the stamp it had
C30_EntriesAreNeverModified ==
    [][(\A h \in Reqs : ~(task[h].pc # "done" /\ task'[h].result = "stored"))
          => \A k \in DOMAIN round_trip_bookings \cap DOMAIN round_trip_bookings' :
                round_trip_bookings'[k] = round_trip_bookings[k]]_vars

\* C30: a payload is being emitted for a stored booking whose entry is still
\* in the store, an hour after it was put, with the flights it was put with
C30_Witness ==
    \E h \in Emitting :
        /\ get_round_trip_booking(round_trip_bookings, task[h].order_id) # <<>>
        /\ round_trip_bookings[task[h].order_id].booking_data = task[h].existing_booking
        /\ round_trip_bookings[task[h].order_id].first_received_at < now
        /\ round_trip_bookings[task[h].order_id].flights
               # task[h].transformed_data.ReturnFlights
        /\ task[h].existing_booking.pk > 0

\* the candidate cannot yield a result for the target: its date-time is no
\* date-time, or it matches the target and holds no identifier
Unusable(flight, flight_date, flight_number) ==
    \/ ~WellFormed(flight.FlightDate)
    \/ /\ Matching(flight, flight_date, flight_number)
       /\ flight.FlightIdentifier.kind = "none"

\* C31: when the scan meets a candidate that cannot yield a result before
\* any candidate that matches and carries an identifier, it goes on: it
\* returns the identifier of the first later candidate that matches and
\* carries one, and none when there is no such candidate
C31_UnusableCandidateIsSkipped ==
    Matched =>
        LET flight_list == call.flight_list
            hits == {i \in 1..Len(flight_list) :
                        /\ Matching(flight_list[i], call.flight_date, call.flight_number)
                        /\ flight_list[i].FlightIdentifier.kind # "none"}
            skipped == {i \in 1..Len(flight_list) :
                           /\ Unusable(flight_list[i], call.flight_date, call.flight_number)
                           /\ \A j \in hits : i < j}
        IN  (skipped # {} /\ WellFormed(call.flight_date)) =>
                IF hits = {} THEN call.result = Ok(NoId)
                ELSE call.result = Ok(flight_list[Least(hits)].FlightIdentifier.n)


\* C32: when the first candidate that matches the target carries an
\* identifier, the matcher returns it, be it a number or a text, and does
\* not raise
C32_IdentifierReturnedWhateverItsType ==
    Matched =>
        LET flight_list == call.flight_list
            matching == {i \in 1..Len(flight_list) :
                            Matching(flight_list[i], call.flight_date, call.flight_number)}
        IN  (matching # {} /\ flight_list[Least(matching)].FlightIdentifier.kind # "none")
                => /\ ~call.result.raised
                   /\ call.result.value = flight_list[Least(matching)].FlightIdentifier.n

\* C33: for a booking whose item name holds fewer than two parenthesized
\* airport codes, or whose start_at states no date-time, the resolver ends
\* without having called the search, with what the fallback gives
C33_NoSearchWithoutQuery ==
    (/\ Resolved
     /\ \/ Len(call.booking_data.item_name) < 2
        \/ ~WellFormed(call.booking_data.start_at))
    => /\ ~call.searched
       /\ call.search_result = NoCall.search_result
       /\ call.result = extract_flight_numbers(call.booking_data)

\* C33: the resolver has returned the flight number of a custom field for a
\* booking with two airport codes and a start_at that is no date-time, and
\* no search was called
C33_Witness ==
    /\ Resolved
    /\ Len(call.booking_data.item_name) = 2
    /\ call.booking_data.start_at = BadDate
    /\ call.booking_data.headline # NoText
    /\ ~call.searched
    /\ call.result = Ok(<<517>>)

\* C34: a step of the handler of a webhook for one order leaves the entry of
\* every other order as it was, and an order without an entry without one,
\* except that the step in which the webhook arrives removes the entries
\* older than the TTL
C34_OtherKeysUntouched ==
    [][\A h \in Reqs :
          task'[h] # task[h] =>
              \A k \in Keys \ {task'[h].order_id} :
                  \/ get_round_trip_booking(round_trip_bookings', k)
                         = get_round_trip_booking(round_trip_bookings, k)
                  \/ /\ task[h].pc = "idle"
                     /\ has_round_trip_booking(round_trip_bookings, k)
                     /\ now - round_trip_bookings[k].first_received_at
                            > ROUND_TRIP_CLEANUP_HOURS
                     /\ ~has_round_trip_booking(round_trip_bookings', k)]_vars

\* C34: a handler has stored the booking of one order, at the hour it
\* arrived, while the entry of another order, put earlier, is in the store
C34_Witness ==
    \E h \in Reqs : \E k \in Keys \ {task[h].order_id} :
        /\ task[h].result = "stored"
        /\ has_round_trip_booking(round_trip_bookings, task[h].order_id)
        /\ round_trip_bookings[task[h].order_id].booking_data.pk = h
        /\ round_trip_bookings[task[h].order_id].first_received_at = now
        /\ has_round_trip_booking(round_trip_bookings, k)
        /\ round_trip_bookings[k].first_received_at < now

\* C35: a handler that found an entry for its order holds the booking of
\* that entry, and no handler returns the storage error
C35_StorageErrorUnreachable ==
    [][\A h \in Reqs :
          /\ task'[h].result # "storage_error"
          /\ (/\ task[h].pc = "idle"
              /\ task'[h].pc # "idle"
              /\ task'[h].order_id \in DOMAIN cleanup_old_bookings(round_trip_bookings, now)
              /\ task'[h].pc # "done")
             => /\ task'[h].pc \in {"search_existing", "search_current", "emit"}
                /\ task'[h].existing_booking
                       = round_trip_bookings[task'[h].order_id].booking_data]_vars

\* C35: a handler found the entry of its order and holds its booking, while
\* another that found it too has returned a combine outcome and removed it
C35_Witness ==
    \E g, h \in Reqs :
        /\ task[g].result \in CombinedResults
        /\ task[h].pc \in {"search_existing", "search_current", "emit"}
        /\ task[h].order_id = task[g].order_id
        /\ task[h].existing_booking # NoBooking
        /\ ~has_round_trip_booking(round_trip_bookings, task[h].order_id)

\* C36: after a successful search the resolver works on the response when it
\* is a list, and on the first non-empty of the values under flights,
\* FlightList and data when it is an object, as it would on that list given
\* bare; a response that is neither, or that yields no list or an empty one,
\* gets what the fallback gives
C36_ResponseShapes ==
    (Resolved /\ call.searched /\ call.search_result.success) =>
        LET response == call.search_result.response
            accepted ==
                IF response.kind = "list" THEN response.list
                ELSE IF response.kind # "dict" THEN <<>>
                ELSE IF response.flights # <<>> THEN response.flights
                ELSE IF response.FlightList # <<>> THEN response.FlightList
                ELSE response.data
            bare == [success |-> TRUE,
                     response |-> [kind |-> "list", list |-> accepted, flights |-> <<>>,
                                   FlightList |-> <<>>, data |-> <<>>]]
        IN  IF accepted = <<>>
            THEN call.result = extract_flight_numbers(call.booking_data)
            ELSE call.result = get_flight_identifiers_from_api(call.booking_data, bare)

\* C36: the resolver has returned the identifier found in the list under
\* FlightList, for a response that holds the flights of another day under
\* data and nothing under flights
C36_Witness ==
    /\ Resolved
    /\ call.searched
    /\ call.search_result.success
    /\ call.search_result.response.kind = "dict"
    /\ call.search_result.response.flights = <<>>
    /\ call.search_result.response.FlightList = SearchHit.response.list
    /\ call.search_result.response.data # <<>>
    /\ call.result = Ok(<<1001>>)

====
